---- MODULE Spec2Model ----
(***************************************************************************)
(* A model of the NHTSA grader (graders/nhtsa_grader.py): the provider     *)
(* functions api_query, get_recalls, get_complaints, get_safety_rating and *)
(* the scoring function grade.  Texts are real strings and are matched by  *)
(* substring as Python's `in` does; scores are exact rationals <<n, d>>.   *)
(***************************************************************************)
EXTENDS Integers, Sequences, FiniteSets, TLC

VARIABLES
    item,        \* the query passed to grade (a Python dict)
    sample,      \* the model's answer passed to grade (a Python dict)
    nhtsa,       \* the data source: the outcome of each lookup grade makes
    calls,       \* number of grade calls made so far with these inputs
    result,      \* how the latest grade call ended (return value or raise)
    requests,    \* the endpoints the latest grade call requested, in order
    firstResult, \* how the first grade call ended
    changed,     \* the data source changed since the first grade call
    stale,       \* the data source changed since the latest grade call
    passed,      \* result["passed"] of the latest evaluate_example
    modelFailed, \* the model call of the latest evaluate_example raised
    truth,       \* what the provider returned to the latest evaluate_example
    firstNet     \* the data source as the first evaluate_example found it

vars ==
    <<item, sample, nhtsa, calls, result, requests, firstResult, changed, stale,
      passed, modelFailed, truth, firstNet>>

(***************************************************************************)
(* Bounds of the model.                                                    *)
(***************************************************************************)
MaxCalls == 2
MaxVehicles == 3
MaxCampaigns == 2

(***************************************************************************)
(* Exact rationals for the float scores: <<numerator, denominator>> in     *)
(* lowest terms.                                                           *)
(***************************************************************************)
RECURSIVE GCD(_, _)
GCD(a, b) == IF b = 0 THEN a ELSE GCD(b, a % b)

Rat(n, d) == LET g == GCD(n, d) IN <<n \div g, d \div g>>

RAdd(a, b) == Rat(a[1] * b[2] + b[1] * a[2], a[2] * b[2])

RMul(a, b) == Rat(a[1] * b[1], a[2] * b[2])

RLe(a, b) == a[1] * b[2] <= b[1] * a[2]

RMin(a, b) == IF RLe(a, b) THEN a ELSE b

Zero == Rat(0, 1)
One == Rat(1, 1)
Half == Rat(1, 2)

(***************************************************************************)
(* Python values and string primitives.                                    *)
(***************************************************************************)
None == [type |-> "NoneType"]

PyInt(n) == [type |-> "int", n |-> n]

PyStr(s) == [type |-> "str", s |-> s]

\* dict.get(k, default)
Get(d, k, default) == IF k \in DOMAIN d THEN d[k] ELSE default

\* truth value of an api_query result: None and the empty dict are false
Truthy(v) == v # None /\ DOMAIN v # {}

\* `w in s` for strings
Contains(w, s) ==
    \E i \in 1..(Len(s) - Len(w) + 1) : SubSeq(s, i, i + Len(w) - 1) = w

\* any(w in response for w in words)
AnyIn(words, response) == \E w \in words : Contains(w, response)

UpperCase == "ABCDEFGHIJKLMNOPQRSTUVWXYZ"
LowerCase == "abcdefghijklmnopqrstuvwxyz"
Digits == "0123456789"

LowerChar(c) ==
    IF \E i \in 1..Len(UpperCase) : SubSeq(UpperCase, i, i) = c
    THEN LET i == CHOOSE j \in 1..Len(UpperCase) : SubSeq(UpperCase, j, j) = c
         IN  SubSeq(LowerCase, i, i)
    ELSE c

\* str.lower()
RECURSIVE Lower(_)
Lower(s) == IF s = "" THEN "" ELSE LowerChar(SubSeq(s, 1, 1)) \o Lower(Tail(s))

\* str.replace(old, new) for a one-character old
RECURSIVE Replace(_, _, _)
Replace(s, old, new) ==
    IF s = "" THEN ""
    ELSE (IF SubSeq(s, 1, 1) = old THEN new ELSE SubSeq(s, 1, 1))
         \o Replace(Tail(s), old, new)

IsDigit(c) == \E i \in 1..Len(Digits) : SubSeq(Digits, i, i) = c

DigitValue(c) == (CHOOSE i \in 1..Len(Digits) : SubSeq(Digits, i, i) = c) - 1

\* str(n) for an int n >= 0
RECURSIVE IntToStr(_)
IntToStr(n) ==
    IF n < 10 THEN SubSeq(Digits, n + 1, n + 1)
    ELSE IntToStr(n \div 10) \o SubSeq(Digits, (n % 10) + 1, (n % 10) + 1)

\* int(s) for a string of decimal digits
RECURSIVE ParseInt(_)
ParseInt(s) ==
    IF Len(s) = 1 THEN DigitValue(s)
    ELSE 10 * ParseInt(SubSeq(s, 1, Len(s) - 1)) + DigitValue(SubSeq(s, Len(s), Len(s)))

\* str(v) for a rating value
Str(v) == IF v.type = "int" THEN IntToStr(v.n) ELSE v.s

\* re.findall(r'\d+', s): the maximal digit runs of s, left to right
RECURSIVE ScanDigits(_, _, _)
ScanDigits(s, run, found) ==
    IF s = "" THEN (IF run = "" THEN found ELSE Append(found, run))
    ELSE LET c == SubSeq(s, 1, 1)
         IN  IF IsDigit(c) THEN ScanDigits(Tail(s), run \o c, found)
             ELSE ScanDigits(Tail(s), "", IF run = "" THEN found ELSE Append(found, run))

FindNumbers(s) == ScanDigits(s, "", << >>)

Abs(x) == IF x < 0 THEN -x ELSE x

(***************************************************************************)
(* The provider.  One HTTP request ends in one of these ways: a JSON body  *)
(* is decoded, or urlopen/json.loads raises.  api_query catches URLError   *)
(* (HTTPError included) and JSONDecodeError only; any other exception, such *)
(* as a socket timeout while the body is read, leaves api_query.           *)
(***************************************************************************)
Ok(v, reqs) == [raised |-> FALSE, error |-> "", value |-> v, requests |-> reqs]

Fail(e, reqs) == [raised |-> TRUE, error |-> e, value |-> None, requests |-> reqs]

Json(body) == [kind |-> "json", body |-> body]

Error(e) == [kind |-> e]

CaughtByApiQuery == {"URLError", "JSONDecodeError"}

api_query(endpoint, outcome) ==
    IF outcome.kind = "json" THEN Ok(outcome.body, <<endpoint>>)
    ELSE IF outcome.kind \in CaughtByApiQuery THEN Ok(None, <<endpoint>>)
    ELSE Fail(outcome.kind, <<endpoint>>)

\* a variant that answers with the default record and asks nothing
get_recalls_Default(make, model, year, net) ==
    Ok([Count |-> 0, results |-> << >>], << >>)

get_recalls(make, model, year, net) ==
    LET model_encoded == Replace(model, " ", "%20")
        q == api_query("/recalls/recallsByVehicle?make=" \o make \o "&model="
                       \o model_encoded \o "&modelYear=" \o year, net[1])
    IN  IF q.raised THEN q
        ELSE Ok(IF Truthy(q.value) THEN q.value
                ELSE [Count |-> 0, results |-> << >>], q.requests)

get_complaints(make, model, year, net) ==
    LET model_encoded == Replace(model, " ", "%20")
        q == api_query("/complaints/complaintsByVehicle?make=" \o make \o "&model="
                       \o model_encoded \o "&modelYear=" \o year, net[1])
    IN  IF q.raised THEN q
        ELSE Ok(IF Truthy(q.value) THEN q.value
                ELSE [count |-> 0, results |-> << >>], q.requests)

\* f"{vid}" for the VehicleId of the first result
Format(v) == IF v = None THEN "None" ELSE Str(v)

get_safety_rating(make, model, year, net) ==
    LET q == api_query("/SafetyRatings/modelyear/" \o year \o "/make/" \o make
                       \o "/model/" \o model, net[1])
        data == q.value
    IN  IF q.raised THEN q
        ELSE IF Truthy(data) /\ Get(data, "Count", 0) > 0
        THEN IF "Results" \notin DOMAIN data THEN Fail("KeyError", q.requests)
             ELSE IF data["Results"] = << >> THEN Fail("IndexError", q.requests)
             ELSE LET vid == Get(data["Results"][1], "VehicleId", None)
                      r == api_query("/SafetyRatings/VehicleId/" \o Format(vid), net[2])
                      rating_data == r.value
                      reqs == q.requests \o r.requests
                  IN  IF r.raised THEN Fail(r.error, reqs)
                      ELSE IF Truthy(rating_data)
                              /\ Get(rating_data, "Results", << >>) # << >>
                      THEN Ok(rating_data["Results"][1], reqs)
                      ELSE Ok(None, reqs)
        ELSE Ok(None, q.requests)

(***************************************************************************)
(* grade.  Each branch of the query_type dispatch is an operator; the      *)
(* outcome of a call is its return value or the exception it raised, with  *)
(* the requests it issued.                                                 *)
(***************************************************************************)
Return(score, reqs) == [kind |-> "return", score |-> score, error |-> "", requests |-> reqs]

Raise(e, reqs) == [kind |-> "raise", score |-> Zero, error |-> e, requests |-> reqs]

RecallsYesWords(recall_count) == {"yes", "recall", "found", IntToStr(recall_count)}

\* a variant without the zero-count phrase
RecallsNoWords_Short == {"no recall", "none"}

RecallsNoWords == {"no recall", "none", "0 recall"}

\* [r.get("NHTSACampaignNumber", "") for r in api_data.get("results", [])]
Campaigns(api_data) ==
    LET rs == Get(api_data, "results", << >>)
    IN  [i \in 1..Len(rs) |-> Get(rs[i], "NHTSACampaignNumber", "")]

\* a variant that compares the campaign numbers as written
Mentioned_CaseSensitive(campaigns, response) ==
    Cardinality({i \in 1..Len(campaigns) : Contains(campaigns[i], response)})

\* sum(1 for c in campaigns if c.lower() in response)
Mentioned(campaigns, response) ==
    Cardinality({i \in 1..Len(campaigns) : Contains(Lower(campaigns[i]), response)})

Max(a, b) == IF a >= b THEN a ELSE b

\* a variant without the base credit for affirming
RecallsBonus_NoBase(campaigns, response) ==
    Rat(Mentioned(campaigns, response), 2 * Max(Len(campaigns), 1))

RecallsBonus(campaigns, response) ==
    RMin(One, RAdd(Rat(7, 10),
                   RMul(Rat(3, 10),
                        Rat(Mentioned(campaigns, response), Max(Len(campaigns), 1)))))

grade_recalls(response, make, model, year, net) ==
    LET g == get_recalls(make, model, year, net[1])
        api_data == g.value
        recall_count == Get(api_data, "Count", 0)
        has_recalls == recall_count > 0
        response_says_yes == AnyIn(RecallsYesWords(recall_count), response)
        response_says_no == AnyIn(RecallsNoWords, response)
    IN  IF g.raised THEN Raise(g.error, g.requests)
        ELSE IF has_recalls /\ response_says_yes /\ ~response_says_no
        THEN Return(RecallsBonus(Campaigns(api_data), response), g.requests)
        ELSE IF ~has_recalls /\ response_says_no THEN Return(One, g.requests)
        ELSE Return(Zero, g.requests)

\* a variant that takes the first number of the text
MinInt_First(numbers) == ParseInt(numbers[1])

\* min(int(n) for n in numbers)
RECURSIVE MinInt(_)
MinInt(numbers) ==
    IF Len(numbers) = 1 THEN ParseInt(numbers[1])
    ELSE LET m == MinInt(Tail(numbers))
         IN  IF ParseInt(numbers[1]) <= m THEN ParseInt(numbers[1]) ELSE m

grade_recall_count(response, make, model, year, net) ==
    LET g == get_recalls(make, model, year, net[1])
        expected == Get(g.value, "Count", 0)
        numbers == FindNumbers(response)
    IN  IF g.raised THEN Raise(g.error, g.requests)
        ELSE IF Contains(IntToStr(expected), response) THEN Return(One, g.requests)
        ELSE IF numbers # << >> /\ Abs(MinInt(numbers) - expected) <= 1
        THEN Return(Rat(8, 10), g.requests)
        ELSE Return(Zero, g.requests)

ComplaintsNoPhrases ==
    {"no complaints", "no issues", "no problems", "none reported",
     "no reported", "haven't been filed", "have not been filed",
     "0 complaints", "zero complaints", "none filed", "no filed"}

ComplaintsYesWords ==
    {"complaint", "issue", "problem", "reported", "filed", "owners report"}

ComplaintsSaysNo(response) == AnyIn(ComplaintsNoPhrases, response)

\* a variant without the negation guard
ComplaintsSaysYes_Unguarded(response) == AnyIn(ComplaintsYesWords, response)

ComplaintsSaysYes(response) ==
    ~ComplaintsSaysNo(response) /\ AnyIn(ComplaintsYesWords, response)

\* a variant that gives an affirmed presence full credit
ComplaintsDecision_Full(has_complaints, response_says_yes, response_says_no) ==
    IF has_complaints /\ response_says_yes THEN One
    ELSE IF ~has_complaints /\ response_says_no THEN One
    ELSE IF has_complaints /\ response_says_no THEN Zero
    ELSE IF ~has_complaints /\ response_says_yes THEN Zero
    ELSE Half

ComplaintsDecision(has_complaints, response_says_yes, response_says_no) ==
    IF has_complaints /\ response_says_yes THEN Rat(8, 10)
    ELSE IF ~has_complaints /\ response_says_no THEN One
    ELSE IF has_complaints /\ response_says_no THEN Zero
    ELSE IF ~has_complaints /\ response_says_yes THEN Zero
    ELSE Half

\* a variant whose component shortcut does not ask for a non-empty filter
grade_complaints_AnyFilter(itm, response, make, model, year, net) ==
    LET g == get_complaints(make, model, year, net[1])
        count == Get(g.value, "count", 0)
        component_filter == Lower(Get(itm, "component_filter", ""))
    IN  IF g.raised THEN Raise(g.error, g.requests)
        ELSE IF Contains(component_filter, response) THEN Return(One, g.requests)
        ELSE Return(ComplaintsDecision(count > 0, ComplaintsSaysYes(response),
                                       ComplaintsSaysNo(response)), g.requests)

grade_complaints(itm, response, make, model, year, net) ==
    LET g == get_complaints(make, model, year, net[1])
        count == Get(g.value, "count", 0)
        has_complaints == count > 0
        response_says_no == ComplaintsSaysNo(response)
        response_says_yes == ComplaintsSaysYes(response)
        component_filter == Lower(Get(itm, "component_filter", ""))
    IN  IF g.raised THEN Raise(g.error, g.requests)
        ELSE IF component_filter # "" /\ Contains(component_filter, response)
        THEN Return(One, g.requests)
        ELSE Return(ComplaintsDecision(has_complaints, response_says_yes,
                                       response_says_no), g.requests)

Tolerance == 20

\* a variant with a strict comparison
WithinTolerance_Strict(numbers, expected) ==
    \E i \in 1..Len(numbers) : Abs(ParseInt(numbers[i]) - expected) < Tolerance

\* a variant that looks at the first number of the text only
WithinTolerance_First(numbers, expected) ==
    Abs(ParseInt(numbers[1]) - expected) <= Tolerance

\* for n in numbers: if abs(int(n) - expected) <= 20: return 0.9
WithinTolerance(numbers, expected) ==
    \E i \in 1..Len(numbers) : Abs(ParseInt(numbers[i]) - expected) <= Tolerance

grade_complaint_count(response, make, model, year, net) ==
    LET g == get_complaints(make, model, year, net[1])
        expected == Get(g.value, "count", 0)
        numbers == FindNumbers(response)
    IN  IF g.raised THEN Raise(g.error, g.requests)
        ELSE IF Contains(IntToStr(expected), response) THEN Return(One, g.requests)
        ELSE IF numbers # << >> /\ WithinTolerance(numbers, expected)
        THEN Return(Rat(9, 10), g.requests)
        ELSE Return(Zero, g.requests)

\* a variant that never takes the early return
Unavailable_Skipped(rating) == FALSE

\* `not rating`: None and the empty dict
Unavailable(rating) == ~Truthy(rating)

grade_safety_rating(itm, response, make, model, year, net) ==
    LET g == get_safety_rating(make, model, year, net[1])
        rating == g.value
        field == Get(itm, "rating_field", "OverallRating")
        expected == Get(rating, field, PyStr("Not Rated"))
    IN  IF g.raised THEN Raise(g.error, g.requests)
        ELSE IF Unavailable(rating) THEN Return(Half, g.requests)
        ELSE IF \/ Contains(Str(expected), response)
                \/ Contains(Str(expected) \o "-star", response)
                \/ Contains(Str(expected) \o " star", response)
        THEN Return(One, g.requests)
        ELSE Return(Zero, g.requests)

FeatureNoPhrases ==
    {"not standard", "not included", "not equipped", "not available",
     "optional", "is not", "does not have", "doesn't have"}

FeatureYesWords == {"yes", "standard", "included", "equipped", "available"}

FeatureSaysNo(response) == AnyIn(FeatureNoPhrases, response)

FeatureSaysYes(response) ==
    ~FeatureSaysNo(response) /\ AnyIn(FeatureYesWords, response)

\* a variant that grades an unclear answer as neutral
FeatureDecision_Neutral(is_standard, response_says_yes, response_says_no) ==
    IF is_standard /\ response_says_yes /\ ~response_says_no THEN One
    ELSE IF ~is_standard /\ response_says_no THEN One
    ELSE IF is_standard /\ response_says_no THEN Zero
    ELSE IF ~is_standard /\ response_says_yes THEN Zero
    ELSE Half

FeatureDecision(is_standard, response_says_yes, response_says_no) ==
    IF is_standard /\ response_says_yes /\ ~response_says_no THEN One
    ELSE IF ~is_standard /\ response_says_no THEN One
    ELSE IF is_standard /\ response_says_no THEN Zero
    ELSE IF ~is_standard /\ response_says_yes THEN Zero
    ELSE Rat(3, 10)

grade_safety_features(itm, response, make, model, year, net) ==
    LET g == get_safety_rating(make, model, year, net[1])
        rating == g.value
        feature == Get(itm, "feature", "")
        feature_value == Get(rating, feature, PyStr("Not Rated"))
    IN  IF g.raised THEN Raise(g.error, g.requests)
        ELSE IF Unavailable(rating) THEN Return(Half, g.requests)
        ELSE IF feature_value.type # "str"
        THEN Raise("AttributeError", g.requests)    \* int has no .lower()
        ELSE Return(FeatureDecision(Lower(feature_value.s) = "standard",
                                    FeatureSaysYes(response),
                                    FeatureSaysNo(response)), g.requests)

\* the share one matching vehicle adds to a comparison score
VehicleShare(vehicles) == Half

\* the comparison loop from vehicle i on, with the score and requests so far
RECURSIVE CompareFrom(_, _, _, _, _, _, _)
CompareFrom(i, vehicles, field, response, net, score, reqs) ==
    IF i > Len(vehicles) THEN Return(score, reqs)
    ELSE LET v == vehicles[i]
         IN  IF {"make", "model", "year"} \ DOMAIN v # {} THEN Raise("KeyError", reqs)
             ELSE LET g == get_safety_rating(v["make"], v["model"], v["year"], net[i])
                      rating == g.value
                      expected == Get(rating, field, PyStr(""))
                      hit == ~g.raised /\ ~Unavailable(rating)
                             /\ Contains(Str(expected), response)
                  IN  IF g.raised THEN Raise(g.error, reqs \o g.requests)
                      ELSE CompareFrom(i + 1, vehicles, field, response, net,
                                       IF hit THEN RAdd(score, VehicleShare(vehicles))
                                       ELSE score,
                                       reqs \o g.requests)

grade_comparison(itm, response, net) ==
    CompareFrom(1, Get(itm, "vehicles", << >>),
                Get(itm, "rating_field", "OverallRating"), response, net, Zero, << >>)

\* a variant that penalises the query types grade does not know
NeutralScore_Zero == Zero

\* the score of a query type grade does not know
NeutralScore == Half

QueryTypes ==
    {"recalls", "recall_count", "complaints", "complaint_count",
     "safety_rating", "safety_features", "comparison"}

\* sample.get("output_text", "")
OutputText(smp) == Get(smp, "output_text", "")

grade(itm, smp, net) ==
    LET query_type == Get(itm, "query_type", "")
        response == Lower(OutputText(smp))
        make == Get(itm, "make", "")
        model == Get(itm, "model", "")
        year == Get(itm, "year", "")
    IN  CASE query_type = "recalls" -> grade_recalls(response, make, model, year, net)
          [] query_type = "recall_count" ->
                grade_recall_count(response, make, model, year, net)
          [] query_type = "complaints" ->
                grade_complaints(itm, response, make, model, year, net)
          [] query_type = "complaint_count" ->
                grade_complaint_count(response, make, model, year, net)
          [] query_type = "safety_rating" ->
                grade_safety_rating(itm, response, make, model, year, net)
          [] query_type = "safety_features" ->
                grade_safety_features(itm, response, make, model, year, net)
          [] query_type = "comparison" -> grade_comparison(itm, response, net)
          [] OTHER -> Return(NeutralScore, << >>)

(***************************************************************************)
(* The inputs: queries as the generators and tests build them, answer      *)
(* texts, and what the data source answers.                                *)
(***************************************************************************)
Model3 == [make |-> "Tesla", model |-> "Model 3", year |-> "2020"]
Camry == [make |-> "Toyota", model |-> "Camry", year |-> "2024"]
Accord == [make |-> "Honda", model |-> "Accord", year |-> "2024"]

VehiclePool == <<Camry, Accord, Model3>>

\* the first n vehicles of a comparison
Vehicles(n) == [i \in 1..n |-> VehiclePool[((i - 1) % Len(VehiclePool)) + 1]]

Query(vehicle, query_type) == vehicle @@ [query_type |-> query_type]

ComparisonItems ==
    {[query_type |-> "comparison", vehicles |-> Vehicles(n),
      rating_field |-> "OverallRating"] : n \in 0..MaxVehicles}

Items ==
    {Query(Model3, "recalls"), Query(Model3, "recall_count"),
     Query(Accord, "complaints"),
     Query(Accord, "complaints") @@ [component_filter |-> "BRAKES"],
     Query(Accord, "complaints") @@ [component_filter |-> ""],
     Query(Model3, "complaint_count"),
     Query(Camry, "safety_rating"),
     Query(Camry, "safety_rating") @@ [rating_field |-> "OverallRating"],
     Query(Camry, "safety_rating") @@ [rating_field |-> "RolloverRating"],
     Query(Camry, "safety_features"),
     Query(Camry, "safety_features") @@ [feature |-> "NHTSAForwardCollisionWarning"],
     Query(Camry, "multi_turn"), Camry,
     [query_type |-> "comparison", vehicles |-> Vehicles(2),
      rating_field |-> "RolloverRating"]}
    \cup ComparisonItems

RecallTexts ==
    {"", "Yes, there are 2 recalls. Campaign: 19V182000",
     "Yes, recalls 19V182000 and 16v061000 were found",
     "No, there are no recalls for this vehicle.", "None", "It has 0 recalls",
     "Yes, there are 10 recalls", "Yes", "2", "3", "12", "Maybe",
     "Yes: 19V182000, 16V061000, 21V000111",
     "There are 0 recalls.", "11", "11 recalls in 5 campaigns", "1 or 3"}

ComplaintTexts ==
    {"", "Yes, there are reported complaints.", "No complaints have been filed.",
     "Owners report brake failures", "Several concern the BRAKES",
     "No issues with the brakes", "There are 0 complaints", "I do not know"}

ComplaintCountTexts ==
    {"", "There are 157 complaints.", "Approximately 147 complaints.",
     "137", "136", "177", "178", "There are only 5 complaints.",
     "2", "20", "21", "22", "23", "Unknown", "In 2020: 400",
     "Between 100 and 150 complaints"}

RatingTexts ==
    {"", "The 2024 Toyota Camry has a 5-star rating.",
     "4 star safety rating from NHTSA.", "It has a 3-star rating.",
     "Not Rated", "not rated", "It received five stars"}

FeatureTexts ==
    {"", "Yes, FCW is standard.", "No, it's not included.", "It is optional",
     "Standard", "Yes, it is available but not included as standard equipment",
     "It is equipped, it is not missing", "Maybe", "Not Rated"}

ComparisonTexts ==
    {"", "Camry: 5 stars, Accord: 4 stars.", "The Camry has 5 stars.",
     "5", "Both are safe"}

OtherTexts == {"", "Some response."}

TextsFor(itm) ==
    LET query_type == Get(itm, "query_type", "")
    IN  CASE query_type \in {"recalls", "recall_count"} -> RecallTexts
          [] query_type = "complaints" -> ComplaintTexts
          [] query_type = "complaint_count" -> ComplaintCountTexts
          [] query_type = "safety_rating" -> RatingTexts
          [] query_type = "safety_features" -> FeatureTexts
          [] query_type = "comparison" -> ComparisonTexts
          [] OTHER -> OtherTexts

\* the sample {} : no output_text
EmptyDict == [k \in {} |-> ""]

SamplesFor(itm) == {EmptyDict} \cup {[output_text |-> t] : t \in TextsFor(itm)}

CampaignPool == <<"19V182000", "16V061000", "21V000111">>

\* the first n recall records of the vehicle
RecallResults(n) ==
    [i \in 1..n |-> [NHTSACampaignNumber |-> CampaignPool[((i - 1) % Len(CampaignPool)) + 1],
                     Component |-> "AIR BAGS"]]

RecallCounts == {0, 2, 10}

ComplaintCounts == {0, 2, 157}

Failures == {Error("URLError"), Error("TimeoutError"), Error("JSONDecodeError")}

RecallLookups ==
    {<<o>> : o \in Failures \cup {Json(EmptyDict)}
                   \cup {Json([Count |-> c, results |-> RecallResults(n)]) :
                           c \in RecallCounts, n \in 0..MaxCampaigns}}

ComplaintLookups ==
    {<<o>> : o \in Failures \cup {Json(EmptyDict)}
                   \cup {Json([count |-> c, results |-> << >>]) : c \in ComplaintCounts}}

FiveStar ==
    [OverallRating |-> PyStr("5"), RolloverRating |-> PyStr("4"),
     NHTSAForwardCollisionWarning |-> PyStr("Standard")]

FourStar ==
    [OverallRating |-> PyStr("4"), NHTSAForwardCollisionWarning |-> PyStr("Optional")]

Numeric ==
    [OverallRating |-> PyInt(5), RolloverRating |-> PyInt(4),
     NHTSAForwardCollisionWarning |-> PyInt(1)]

Unrated == [OverallRating |-> PyStr("Not Rated")]

RatingRecords == {FiveStar, FourStar, Numeric, Unrated}

NoVehicle == Json([Count |-> 0, Results |-> << >>])

OneVehicle == Json([Count |-> 1, Results |-> <<[VehicleId |-> PyInt(19950)]>>])

Rated(record) == <<OneVehicle, Json([Count |-> 1, Results |-> <<record>>])>>

\* a first answer that counts a vehicle and lists none
CountOnly == Json([Count |-> 1, Results |-> << >>])

SafetyLookups ==
    {<<o>> : o \in Failures \cup {NoVehicle, CountOnly}}
    \cup {<<OneVehicle, o>> : o \in Failures \cup {NoVehicle, Json(EmptyDict)}}
    \cup {Rated(r) : r \in RatingRecords}

ComparisonLookups ==
    {<<NoVehicle>>, <<Error("TimeoutError")>>, Rated(FiveStar), Rated(FourStar)}

\* what the data source can answer to one lookup of the query
LookupsFor(itm) ==
    LET query_type == Get(itm, "query_type", "")
    IN  CASE query_type \in {"recalls", "recall_count"} -> RecallLookups
          [] query_type \in {"complaints", "complaint_count"} -> ComplaintLookups
          [] query_type \in {"safety_rating", "safety_features"} -> SafetyLookups
          [] query_type = "comparison" -> ComparisonLookups
          [] OTHER -> {}

\* the number of lookups grade makes for the query
LookupCount(itm) ==
    LET query_type == Get(itm, "query_type", "")
    IN  IF query_type = "comparison" THEN Len(Get(itm, "vehicles", << >>))
        ELSE IF query_type \in QueryTypes THEN 1 ELSE 0

NetsFor(itm) == [1..LookupCount(itm) -> LookupsFor(itm)]

(***************************************************************************)
(* The state machine: grade is called, possibly again, on one query and    *)
(* one answer, while the live data source may change between the calls.    *)
(***************************************************************************)
NoResult == [kind |-> "none", score |-> Zero, error |-> ""]

Outcome(r) == [kind |-> r.kind, score |-> r.score, error |-> r.error]

Init ==
    /\ item \in Items
    /\ sample \in SamplesFor(item)
    /\ nhtsa \in NetsFor(item)
    /\ calls = 0
    /\ result = NoResult
    /\ requests = << >>
    /\ firstResult = NoResult
    /\ changed = FALSE
    /\ stale = FALSE
    /\ passed = FALSE
    /\ modelFailed = FALSE
    /\ truth = << >>
    /\ firstNet = << >>

\* a variant in which the score of the previous call leaks into the next one
GradeCall_Stateful ==
    /\ calls < MaxCalls
    /\ LET r == grade(item, sample, nhtsa)
           kept == IF calls >= 1 /\ r.kind = "return" /\ result.kind = "return"
                   THEN [Outcome(r) EXCEPT !.score = RAdd(r.score, result.score)]
                   ELSE Outcome(r)
       IN  /\ result' = kept
           /\ requests' = r.requests
           /\ firstResult' = IF calls = 0 THEN kept ELSE firstResult
    /\ calls' = calls + 1
    /\ stale' = FALSE
    /\ UNCHANGED <<item, sample, nhtsa, changed, passed, modelFailed, truth, firstNet>>

GradeCall ==
    /\ calls < MaxCalls
    /\ LET r == grade(item, sample, nhtsa)
       IN  /\ result' = Outcome(r)
           /\ requests' = r.requests
           /\ firstResult' = IF calls = 0 THEN Outcome(r) ELSE firstResult
    /\ calls' = calls + 1
    /\ stale' = FALSE
    /\ UNCHANGED <<item, sample, nhtsa, changed, passed, modelFailed, truth, firstNet>>

\* the live API answers one lookup differently; once between two calls
DataSourceChanges ==
    /\ calls >= 1
    /\ calls < MaxCalls
    /\ ~stale
    /\ \E i \in DOMAIN nhtsa, l \in LookupsFor(item) :
          /\ l # nhtsa[i]
          /\ nhtsa' = [nhtsa EXCEPT ![i] = l]
    /\ changed' = TRUE
    /\ stale' = TRUE
    /\ UNCHANGED <<item, sample, calls, result, requests, firstResult>>
    /\ UNCHANGED <<passed, modelFailed, truth, firstNet>>

Next == GradeCall \/ DataSourceChanges

Spec == Init /\ [][Next]_vars

(***************************************************************************)
(* compare_models: one example of the validation set is evaluated with the *)
(* base model and then with the fine-tuned model.  evaluate_example asks   *)
(* the model for an answer and grades it; grade queries the live API.      *)
(***************************************************************************)
\* the evaluate_example calls per example: base model, fine-tuned model
ModelsCompared == 2

\* how client.chat.completions.create can end
Content(text) == [kind |-> "content", text |-> text]

NoContent == [kind |-> "none"]

ApiError == [kind |-> "error"]

\* response.choices[0].message.content or "", and "" on any exception
get_model_response(completion) ==
    IF completion.kind = "content" THEN completion.text ELSE ""

EvalAnswers ==
    {"Yes, there are 2 recalls. Campaign: 19V182000",
     "No, there are no recalls for this vehicle.", "2", "3",
     "Yes, there are reported complaints.", "No complaints have been filed.",
     "There are 157 complaints.", "137",
     "The 2024 Toyota Camry has a 5-star rating.", "It has a 3-star rating.",
     "Yes, FCW is standard.", "Maybe",
     "Camry: 5 stars, Accord: 4 stars.", "The Camry has 5 stars.",
     "Some response."}

Completions(itm) ==
    {NoContent, ApiError} \cup {Content(t) : t \in TextsFor(itm) \cap EvalAnswers}

\* the validation examples: a comparison names two vehicles
EvalItems ==
    {i \in Items : Get(i, "query_type", "") = "comparison" => Len(i["vehicles"]) = 2}

\* the provider calls of one grade call, in order, up to one that raises
GroundTruth(itm, net) ==
    LET query_type == Get(itm, "query_type", "")
        make == Get(itm, "make", "")
        model == Get(itm, "model", "")
        year == Get(itm, "year", "")
        vehicles == Get(itm, "vehicles", << >>)
        ratings == [i \in DOMAIN vehicles |->
                       get_safety_rating(vehicles[i]["make"], vehicles[i]["model"],
                                         vehicles[i]["year"], net[i])]
        raising == {i \in DOMAIN ratings : ratings[i].raised}
        last == IF raising = {} THEN Len(ratings)
                ELSE CHOOSE i \in raising : \A j \in raising : i <= j
    IN  CASE query_type \in {"recalls", "recall_count"} ->
                <<get_recalls(make, model, year, net[1])>>
          [] query_type \in {"complaints", "complaint_count"} ->
                <<get_complaints(make, model, year, net[1])>>
          [] query_type \in {"safety_rating", "safety_features"} ->
                <<get_safety_rating(make, model, year, net[1])>>
          [] query_type = "comparison" -> SubSeq(ratings, 1, last)
          [] OTHER -> << >>

EvalInit ==
    /\ item \in EvalItems
    /\ sample = EmptyDict
    /\ nhtsa \in NetsFor(item)
    /\ calls = 0
    /\ result = NoResult
    /\ requests = << >>
    /\ firstResult = NoResult
    /\ changed = FALSE
    /\ stale = FALSE
    /\ passed = FALSE
    /\ modelFailed = FALSE
    /\ truth = << >>
    /\ firstNet = << >>

\* a variant that keeps the ground truth of the first evaluation
EvaluateExample_CapturedOnce ==
    /\ calls < ModelsCompared
    /\ \E completion \in Completions(item) :
          LET response_text == get_model_response(completion)
              smp == [output_text |-> response_text]
              net == IF calls = 0 THEN nhtsa ELSE firstNet
              r == grade(item, smp, net)
          IN  /\ sample' = smp
              /\ result' = Outcome(r)
              /\ requests' = r.requests
              /\ firstResult' = IF calls = 0 THEN Outcome(r) ELSE firstResult
              /\ passed' = (r.kind = "return" /\ RLe(Rat(7, 10), r.score))
              /\ modelFailed' = (completion.kind = "error")
              /\ truth' = GroundTruth(item, net)
              /\ firstNet' = net
    /\ calls' = calls + 1
    /\ stale' = FALSE
    /\ UNCHANGED <<item, nhtsa, changed>>

\* evaluate_example, for the base model and then for the fine-tuned model;
\* when grade raises, no result is made and nothing is marked passed
EvaluateExample ==
    /\ calls < ModelsCompared
    /\ \E completion \in Completions(item) :
          LET response_text == get_model_response(completion)
              smp == [output_text |-> response_text]
              r == grade(item, smp, nhtsa)
          IN  /\ sample' = smp
              /\ result' = Outcome(r)
              /\ requests' = r.requests
              /\ firstResult' = IF calls = 0 THEN Outcome(r) ELSE firstResult
              /\ passed' = (r.kind = "return" /\ RLe(Rat(7, 10), r.score))
              /\ modelFailed' = (completion.kind = "error")
              /\ truth' = GroundTruth(item, nhtsa)
              /\ firstNet' = IF calls = 0 THEN nhtsa ELSE firstNet
    /\ calls' = calls + 1
    /\ stale' = FALSE
    /\ UNCHANGED <<item, nhtsa, changed>>

EvalNext == EvaluateExample \/ DataSourceChanges

EvalSpec == EvalInit /\ [][EvalNext]_vars

(***************************************************************************)
(* What a state says about the latest call: its inputs, and the ground     *)
(* truth the provider handed to it.                                        *)
(***************************************************************************)
QueryType == Get(item, "query_type", "")

Text == OutputText(sample)

Response == Lower(Text)

\* the latest call ran against the data source as it is now
Graded == calls >= 1 /\ ~stale

Returned == Graded /\ result.kind = "return"

Returns(score) == [kind |-> "return", score |-> score, error |-> ""]

\* every lookup of the data source answers with a decoded JSON body
Resolved ==
    \A i \in DOMAIN nhtsa : \A j \in DOMAIN nhtsa[i] : nhtsa[i][j].kind = "json"

RecallsRecord ==
    get_recalls(Get(item, "make", ""), Get(item, "model", ""), Get(item, "year", ""),
                nhtsa[1])

ComplaintsRecord ==
    get_complaints(Get(item, "make", ""), Get(item, "model", ""), Get(item, "year", ""),
                   nhtsa[1])

RatingRecord ==
    get_safety_rating(Get(item, "make", ""), Get(item, "model", ""),
                      Get(item, "year", ""), nhtsa[1])

RatingAbsent == ~RatingRecord.raised /\ RatingRecord.value = None

RecallCount == Get(RecallsRecord.value, "Count", 0)

ComplaintCount == Get(ComplaintsRecord.value, "count", 0)

\* the campaign numbers of the recalls ground truth
CampaignIds ==
    LET rs == Get(RecallsRecord.value, "results", << >>)
    IN  [i \in 1..Len(rs) |-> rs[i]["NHTSACampaignNumber"]]

(***************************************************************************)
(* C1: every score grade returns lies in [0.0, 1.0], for every query type, *)
(* ground truth and answer text.  (Fails: a comparison adds 0.5 for each    *)
(* matching vehicle, so three matching vehicles score 1.5.)                *)
(***************************************************************************)
ScoreInUnitInterval ==
    Returned => RLe(Zero, result.score) /\ RLe(result.score, One)

(***************************************************************************)
(* C2: grade never raises when the ground truth has the shapes of the data *)
(* model (every lookup answered).  (Fails: safety_features calls .lower()  *)
(* on an integer feature value.)                                           *)
(***************************************************************************)
GradeNeverRaises == (Graded /\ Resolved) => result.kind = "return"

MissingTextGradedAsEmpty ==
    (Graded /\ Resolved /\ sample = EmptyDict) =>
        /\ result.kind = "return"
        /\ result = Outcome(grade(item, [output_text |-> ""], nhtsa))

(***************************************************************************)
(* C6: a query type that is none of the seven, or no query type at all,    *)
(* scores exactly 0.5 for every answer text and does not raise.            *)
(***************************************************************************)
UnknownQueryTypeIsNeutral ==
    (calls >= 1 /\ QueryType \notin QueryTypes) => result = Returns(Half)

UnknownQueryTypeGraded ==
    /\ calls >= 1
    /\ Get(item, "query_type", "absent") = "multi_turn"
    /\ Text = "Some response."
    /\ result = Returns(Half)

(***************************************************************************)
(* C7: safety_rating and safety_features score exactly 0.5 for every       *)
(* answer text when the provider has no rating record for the vehicle,     *)
(* whatever rating field or feature the query selects.                     *)
(***************************************************************************)
UnavailableRatingIsNeutral ==
    (Graded /\ QueryType \in {"safety_rating", "safety_features"} /\ RatingAbsent)
        => result = Returns(Half)

UnavailableFeatureGraded ==
    /\ Graded
    /\ QueryType = "safety_features"
    /\ "feature" \in DOMAIN item
    /\ RatingAbsent
    /\ Text = "Yes, FCW is standard."
    /\ result = Returns(Half)

(***************************************************************************)
(* C8: negation priority.  In recalls, complaints (no component filter     *)
(* match) and safety_features a text with a negative phrase scores as a    *)
(* text with no affirmative phrase: 0.0 when the condition holds in the    *)
(* ground truth, 1.0 when it does not; for a 'standard' feature it is 0.0. *)
(***************************************************************************)
FilterMatches ==
    LET component_filter == Lower(Get(item, "component_filter", ""))
    IN  component_filter # "" /\ Contains(component_filter, Response)

FeatureValue ==
    Get(RatingRecord.value, Get(item, "feature", ""), PyStr("Not Rated"))

StatedNumber == ParseInt(FindNumbers(Response)[1])

OneNumberStated ==
    Returned /\ QueryType = "complaint_count" /\ Len(FindNumbers(Response)) = 1

ToleranceIsHardThreshold ==
    (OneNumberStated /\ Resolved) =>
        /\ Abs(StatedNumber - ComplaintCount) = 20 => result.score = Rat(9, 10)
        /\ Abs(StatedNumber - ComplaintCount) = 21 => result.score = Zero

(***************************************************************************)
(* C9 amended: the same, provided the decimal string of the count does not *)
(* occur in the answer text; when it occurs (count 2 in '22' or '23',      *)
(* count 0 in '20') the score is 1.0 at either distance.                   *)
(***************************************************************************)
CountOccurs == Contains(IntToStr(ComplaintCount), Response)

ToleranceIsHardThresholdUnlessLiteral ==
    OneNumberStated =>
        /\ (Abs(StatedNumber - ComplaintCount) = 20 /\ ~CountOccurs)
              => result.score = Rat(9, 10)
        /\ (Abs(StatedNumber - ComplaintCount) = 21 /\ ~CountOccurs)
              => result.score = Zero
        /\ (Abs(StatedNumber - ComplaintCount) \in {20, 21} /\ CountOccurs)
              => result.score = One

DistanceTwentyGraded ==
    /\ OneNumberStated
    /\ ComplaintCount = 157
    /\ Text = "137"
    /\ result.score = Rat(9, 10)

(***************************************************************************)
(* C10: for recalls with count > 0 and an affirmative answer that is not   *)
(* negative the score is 0.7 + 0.3 * (k / n), n campaign numbers in the    *)
(* ground truth, k of them occurring in the answer whatever the letter     *)
(* case; it is 0.7 for n = 0, and always within [0.7, 1.0].                *)
(***************************************************************************)
MentionedIds ==
    {i \in DOMAIN CampaignIds : Contains(Lower(CampaignIds[i]), Lower(Text))}

AffirmedRecalls ==
    /\ Returned
    /\ QueryType = "recalls"
    /\ RecallCount > 0
    /\ AnyIn({"yes", "recall", "found", IntToStr(RecallCount)}, Response)
    /\ ~AnyIn({"no recall", "none", "0 recall"}, Response)

RecallsBonusFormula ==
    AffirmedRecalls =>
        LET n == Len(CampaignIds)
            k == Cardinality(MentionedIds)
        IN  /\ n = 0 => result.score = Rat(7, 10)
            /\ n > 0 => result.score = RAdd(Rat(7, 10), Rat(3 * k, 10 * n))
            /\ RLe(Rat(7, 10), result.score)
            /\ RLe(result.score, One)

OneOfTwoCampaignsGraded ==
    /\ AffirmedRecalls
    /\ Len(CampaignIds) = 2
    /\ Cardinality(MentionedIds) = 1
    /\ result.score = Rat(17, 20)

(***************************************************************************)
(* C11: for recalls with a count above 0, the answer 'Yes, there are       *)
(* <count> recalls ...' scores at least 0.7, for every positive count.     *)
(* (Fails for the counts ending in 0: 'there are 10 recalls' holds the     *)
(* negative phrase '0 recall'.)                                            *)
(***************************************************************************)
StartsWith(prefix, text) ==
    Len(text) >= Len(prefix) /\ SubSeq(text, 1, Len(prefix)) = prefix

CorrectCountAnswerScoresHigh ==
    (Returned /\ QueryType = "recalls" /\ RecallCount > 0
        /\ StartsWith("Yes, there are " \o IntToStr(RecallCount) \o " recalls", Text))
        => RLe(Rat(7, 10), result.score)

(***************************************************************************)
(* C12: recalls outside the affirmative-when-present case is binary: a     *)
(* count of 0 with a negative answer scores 1.0, every other combination   *)
(* 0.0; a denial scores 0.0 whenever the count is above 0.                 *)
(***************************************************************************)
RecallsDenied == AnyIn({"no recall", "none", "0 recall"}, Response)

RECURSIVE SmallestOf(_)
SmallestOf(numbers) ==
    IF numbers = << >> THEN 0
    ELSE LET n == ParseInt(Head(numbers))
             m == SmallestOf(Tail(numbers))
         IN  IF Tail(numbers) = << >> \/ n <= m THEN n ELSE m

ComplaintCountScore ==
    LET numbers == FindNumbers(Response)
    IN  IF CountOccurs THEN One
        ELSE IF \E i \in DOMAIN numbers : Abs(ParseInt(numbers[i]) - ComplaintCount) <= 20
        THEN Rat(9, 10)
        ELSE Zero

AllNumbersFar ==
    LET numbers == FindNumbers(Response)
    IN  /\ numbers # << >>
        /\ \A i \in DOMAIN numbers : Abs(ParseInt(numbers[i]) - ComplaintCount) > 20

WrongCountScoresLow ==
    (Returned /\ QueryType = "complaint_count" /\ Resolved) =>
        /\ result.score = ComplaintCountScore
        /\ AllNumbersFar => RLe(result.score, Rat(3, 10))

(***************************************************************************)
(* C14 amended: the same three-way rule; an answer whose numbers are all   *)
(* more than 20 from the count scores 0.0 provided the decimal string of   *)
(* the count does not occur in it, and 1.0 when it occurs (count 2 in      *)
(* '23').                                                                  *)
(***************************************************************************)
ComplaintCountRule ==
    (Returned /\ QueryType = "complaint_count") =>
        /\ result.score = ComplaintCountScore
        /\ (AllNumbersFar /\ ~CountOccurs) => result.score = Zero
        /\ (AllNumbersFar /\ CountOccurs) => result.score = One

WrongCountGraded ==
    /\ Returned
    /\ QueryType = "complaint_count"
    /\ ComplaintCount = 157
    /\ Text = "There are only 5 complaints."
    /\ result.score = Zero

(***************************************************************************)
(* C15: for complaints with a non-empty component filter whose lower-cased *)
(* string occurs in the answer the score is 1.0, whatever the count and    *)
(* the phrases of the answer; with an empty or absent filter the score is  *)
(* the one of the general rule.                                            *)
(***************************************************************************)
ComplaintsNegative == AnyIn(ComplaintsNoPhrases, Response)

ComplaintsAffirmative == ~ComplaintsNegative /\ AnyIn(ComplaintsYesWords, Response)

GeneralComplaintsScore ==
    IF ComplaintCount > 0 /\ ComplaintsAffirmative THEN Rat(8, 10)
    ELSE IF ComplaintCount = 0 /\ ComplaintsNegative THEN One
    ELSE IF ComplaintsNegative \/ ComplaintsAffirmative THEN Zero
    ELSE Half

ComponentShortcut ==
    (Returned /\ QueryType = "complaints") =>
        LET filter == Get(item, "component_filter", "")
        IN  /\ (filter # "" /\ Contains(Lower(filter), Response)) => result.score = One
            /\ filter = "" => result.score = GeneralComplaintsScore

ComponentDenialGraded ==
    /\ Returned
    /\ QueryType = "complaints"
    /\ Get(item, "component_filter", "") = "BRAKES"
    /\ ComplaintCount > 0
    /\ Text = "No issues with the brakes"
    /\ result.score = One

(***************************************************************************)
(* C16: for complaints without a component-filter match exactly one of     *)
(* five cases holds and gives the score: complaints and affirmative (not   *)
(* negated) 0.8; none and negative 1.0; complaints and negative 0.0; none  *)
(* and affirmative 0.0; neither phrase kind 0.5.                           *)
(***************************************************************************)
ComplaintsCases ==
    LET has == ComplaintCount > 0
    IN  <<[holds |-> has /\ ComplaintsAffirmative, score |-> Rat(8, 10)],
          [holds |-> ~has /\ ComplaintsNegative, score |-> One],
          [holds |-> has /\ ComplaintsNegative, score |-> Zero],
          [holds |-> ~has /\ ComplaintsAffirmative, score |-> Zero],
          [holds |-> ~ComplaintsNegative /\ ~ComplaintsAffirmative, score |-> Half]>>

ComplaintsFiveCases ==
    (Returned /\ QueryType = "complaints" /\ ~FilterMatches) =>
        /\ Cardinality({i \in 1..5 : ComplaintsCases[i].holds}) = 1
        /\ \A i \in 1..5 :
              ComplaintsCases[i].holds => result.score = ComplaintsCases[i].score

PartialCreditGraded ==
    /\ Returned
    /\ QueryType = "complaints"
    /\ ComplaintCount = 157
    /\ Text = "Yes, there are reported complaints."
    /\ result.score = Rat(8, 10)

(***************************************************************************)
(* C17: for safety_rating with an available rating record that holds the  *)
(* rating field (default OverallRating), the score is 1.0 when the string  *)
(* of the field's value, or that string followed by '-star' or ' star',    *)
(* occurs in the answer text, and 0.0 otherwise.  (Fails for a value with  *)
(* capital letters: 'Not Rated' is looked for in the lower-cased text.)    *)
(***************************************************************************)
RatingField == Get(item, "rating_field", "OverallRating")

ExpectedRating == Str(RatingRecord.value[RatingField])

RatingLiteralMatch ==
    (Returned /\ QueryType = "safety_rating" /\ ~RatingAbsent
        /\ RatingField \in DOMAIN RatingRecord.value) =>
        result.score = IF \/ Contains(ExpectedRating, Text)
                          \/ Contains(ExpectedRating \o "-star", Text)
                          \/ Contains(ExpectedRating \o " star", Text)
                       THEN One ELSE Zero

(***************************************************************************)
(* C18: for safety_features with an available rating record exactly one of *)
(* five cases holds and gives the score: standard and affirmative (not     *)
(* negative) 1.0; not standard and negative 1.0; standard and negative     *)
(* 0.0; not standard and affirmative 0.0; neither phrase kind 0.3.         *)
(***************************************************************************)
FeatureNegative == AnyIn(FeatureNoPhrases, Response)

FeatureAffirmative == ~FeatureNegative /\ AnyIn(FeatureYesWords, Response)

FeatureCases ==
    LET isStandard == Lower(FeatureValue.s) = "standard"
    IN  <<[holds |-> isStandard /\ FeatureAffirmative, score |-> One],
          [holds |-> ~isStandard /\ FeatureNegative, score |-> One],
          [holds |-> isStandard /\ FeatureNegative, score |-> Zero],
          [holds |-> ~isStandard /\ FeatureAffirmative, score |-> Zero],
          [holds |-> ~FeatureNegative /\ ~FeatureAffirmative, score |-> Rat(3, 10)]>>

FeatureFiveCases ==
    (Returned /\ QueryType = "safety_features" /\ ~RatingAbsent) =>
        /\ Cardinality({i \in 1..5 : FeatureCases[i].holds}) = 1
        /\ \A i \in 1..5 : FeatureCases[i].holds => result.score = FeatureCases[i].score
        /\ result.score # Half

UnclearFeatureAnswerGraded ==
    /\ Returned
    /\ QueryType = "safety_features"
    /\ ~RatingAbsent
    /\ FeatureValue = PyStr("Standard")
    /\ Text = "Maybe"
    /\ result.score = Rat(3, 10)

(***************************************************************************)
(* C19: a comparison over n >= 1 vehicles scores m/n, m the number of      *)
(* vehicles whose rating is available and whose expected value occurs in   *)
(* the answer; it is 1.0 exactly when all n match.  (Fails for n # 2: each *)
(* matching vehicle adds 0.5.)                                             *)
(***************************************************************************)
ComparedVehicles == Get(item, "vehicles", << >>)

VehicleRating(i) ==
    get_safety_rating(ComparedVehicles[i]["make"], ComparedVehicles[i]["model"],
                      ComparedVehicles[i]["year"], nhtsa[i]).value

VehicleExpected(i) == Str(Get(VehicleRating(i), RatingField, PyStr("")))

MatchingVehicles ==
    {i \in DOMAIN ComparedVehicles :
        VehicleRating(i) # None /\ Contains(VehicleExpected(i), Response)}

PerVehicleShare ==
    (Returned /\ QueryType = "comparison" /\ Len(ComparedVehicles) >= 1) =>
        /\ result.score = Rat(Cardinality(MatchingVehicles), Len(ComparedVehicles))
        /\ result.score = One <=> MatchingVehicles = DOMAIN ComparedVehicles

(***************************************************************************)
(* C20: in a comparison of two vehicles whose ratings are both available,  *)
(* an answer in which both rating values occur scores 1.0, and the answer  *)
(* 'The Camry has <first rating> stars.', which mentions the first         *)
(* vehicle's rating only, scores 0.5, for every pair of rating values.     *)
(* (Fails for two equal ratings: the one value matches both vehicles.)     *)
(***************************************************************************)
BothRatingsAvailable ==
    /\ Returned
    /\ QueryType = "comparison"
    /\ Len(ComparedVehicles) = 2
    /\ \A i \in 1..2 : VehicleRating(i) # None

OneRatingMentionedScoresHalf ==
    BothRatingsAvailable =>
        /\ (\A i \in 1..2 : Contains(VehicleExpected(i), Response)
                /\ Text # "The Camry has " \o VehicleExpected(1) \o " stars.")
              => result.score = One
        /\ Text = "The Camry has " \o VehicleExpected(1) \o " stars."
              => result.score = Half

(***************************************************************************)
(* C21: ground-truth tokens are matched whatever their letter case: for    *)
(* safety_rating a value of the rating field that occurs in the answer     *)
(* text, letter case aside, scores 1.0 ('Not Rated' in 'Not Rated'), and   *)
(* for recalls a campaign number counts as mentioned in any letter case.   *)
(* (Fails: only the answer is lower-cased, the rating value is not.)       *)
(***************************************************************************)
RatingAvailable == ~RatingRecord.raised /\ RatingRecord.value # None

CaseInsensitiveTokens ==
    Returned =>
        /\ (QueryType = "safety_rating" /\ RatingAvailable
                /\ RatingField \in DOMAIN RatingRecord.value
                /\ Contains(Lower(ExpectedRating), Lower(Text)))
              => result.score = One
        /\ (AffirmedRecalls /\ Len(CampaignIds) > 0)
              => result.score = RAdd(Rat(7, 10),
                                     Rat(3 * Cardinality(MentionedIds),
                                         10 * Len(CampaignIds)))

(***************************************************************************)
(* C22: a rating record that is available but lacks the selected field is  *)
(* treated as unavailable: safety_rating and safety_features return 0.5    *)
(* for every answer text and do not raise, and in a comparison such a      *)
(* vehicle adds nothing to the score.  (Fails: the missing value defaults  *)
(* to 'Not Rated', and to the empty string in a comparison.)               *)
(***************************************************************************)
FieldMissing(i) ==
    VehicleRating(i) = None \/ RatingField \notin DOMAIN VehicleRating(i)

MissingFieldIsUnavailable ==
    Graded =>
        /\ (QueryType = "safety_rating" /\ RatingAvailable
                /\ RatingField \notin DOMAIN RatingRecord.value)
              => result = Returns(Half)
        /\ (QueryType = "safety_features" /\ RatingAvailable
                /\ Get(item, "feature", "") \notin DOMAIN RatingRecord.value)
              => result = Returns(Half)
        /\ (QueryType = "comparison" /\ result.kind = "return"
                /\ \A i \in DOMAIN ComparedVehicles : FieldMissing(i))
              => result.score = Zero

(***************************************************************************)
(* C23: every failure of a provider lookup (transport error, timeout,      *)
(* malformed response, on either step of the rating lookup) is absorbed by *)
(* the provider: get_recalls and get_complaints return the zero-count      *)
(* record, get_safety_rating returns absent, and no exception reaches      *)
(* grade.  (Fails: api_query catches URLError and JSONDecodeError only.)   *)
(***************************************************************************)
LookupFailed == \E j \in DOMAIN nhtsa[1] : nhtsa[1][j].kind # "json"

ProviderAbsorbsFailures ==
    Graded =>
        /\ QueryType \in {"recalls", "recall_count"} =>
              /\ ~RecallsRecord.raised
              /\ LookupFailed => RecallsRecord.value = [Count |-> 0, results |-> << >>]
        /\ QueryType \in {"complaints", "complaint_count"} =>
              /\ ~ComplaintsRecord.raised
              /\ LookupFailed => ComplaintsRecord.value = [count |-> 0, results |-> << >>]
        /\ QueryType \in {"safety_rating", "safety_features"} =>
              /\ ~RatingRecord.raised
              /\ LookupFailed => RatingRecord.value = None
        /\ result.error \notin {"TimeoutError", "KeyError", "IndexError"}

(***************************************************************************)
(* C24: an empty or missing answer text gets each rule's no-match default  *)
(* for every ground truth: recalls 0.0, recall_count 0.0, complaints 0.5,  *)
(* complaint_count 0.0, safety_rating 0.0 and safety_features 0.3 when the *)
(* rating is available, comparison 0.0.  (Fails on the raise of C2 and on  *)
(* the missing-field default of C22.)                                      *)
(***************************************************************************)
NoMatchDefault ==
    CASE QueryType \in {"recalls", "recall_count", "complaint_count"} -> Zero
      [] QueryType = "complaints" -> Half
      [] QueryType = "safety_rating" -> Zero
      [] QueryType = "safety_features" -> Rat(3, 10)
      [] QueryType = "comparison" -> Zero

EmptyTextGetsDefault ==
    (Graded /\ Resolved /\ Text = "" /\ QueryType \in QueryTypes
        /\ (QueryType \in {"safety_rating", "safety_features"} => RatingAvailable))
        => result = Returns(NoMatchDefault)

(***************************************************************************)
(* C26: one grade call reads the ground truth in a fixed pattern: recalls  *)
(* and recall_count issue exactly one get_recalls, complaints and          *)
(* complaint_count exactly one get_complaints, safety_rating and           *)
(* safety_features exactly one get_safety_rating, comparison exactly one   *)
(* get_safety_rating per vehicle in list order, an unrecognised query type *)
(* none.  (Fails for a comparison whose lookup raises, C23: the vehicles   *)
(* after it are never looked up.)                                          *)
(***************************************************************************)
ModelYearEndpoint(vehicle) ==
    "/SafetyRatings/modelyear/" \o vehicle["year"] \o "/make/" \o vehicle["make"]
        \o "/model/" \o vehicle["model"]

IsModelYearRequest(request) == StartsWith("/SafetyRatings/modelyear/", request)

IsVehicleIdRequest(request) == StartsWith("/SafetyRatings/VehicleId/", request)

\* the first requests of the get_safety_rating calls, in the order issued
RatingLookups == SelectSeq(requests, IsModelYearRequest)

FixedRequestPattern ==
    Graded =>
        /\ QueryType \in {"recalls", "recall_count"} =>
              /\ Len(requests) = 1
              /\ StartsWith("/recalls/recallsByVehicle?", requests[1])
        /\ QueryType \in {"complaints", "complaint_count"} =>
              /\ Len(requests) = 1
              /\ StartsWith("/complaints/complaintsByVehicle?", requests[1])
        /\ QueryType \in {"safety_rating", "safety_features"} =>
              RatingLookups = <<ModelYearEndpoint(item)>>
        /\ QueryType = "comparison" =>
              RatingLookups = [i \in DOMAIN ComparedVehicles |->
                                  ModelYearEndpoint(ComparedVehicles[i])]
        /\ QueryType \notin QueryTypes => requests = << >>

(***************************************************************************)
(* C28: a failed recalls or complaints lookup is graded exactly as a count *)
(* of 0: recalls gives 1.0 to a denial and 0.0 to an affirmation,          *)
(* recall_count and complaint_count give 1.0 to an answer containing '0',  *)
(* complaints gives 1.0 to a denial.  (Fails for the failures api_query    *)
(* does not catch, C23: the call raises.)                                  *)
(***************************************************************************)
ZeroCount ==
    IF QueryType \in {"recalls", "recall_count"}
    THEN Json([Count |-> 0, results |-> << >>])
    ELSE Json([count |-> 0, results |-> << >>])

FailedLookupIsZeroCount ==
    (Graded /\ QueryType \in {"recalls", "recall_count", "complaints", "complaint_count"}
        /\ LookupFailed) =>
        /\ result = Outcome(grade(item, sample, <<<<ZeroCount>>>>))
        /\ (QueryType = "recalls" /\ RecallsDenied) => result = Returns(One)
        /\ (QueryType = "recalls" /\ ~RecallsDenied) => result = Returns(Zero)
        /\ (QueryType \in {"recall_count", "complaint_count"} /\ Contains("0", Response))
              => result = Returns(One)
        /\ (QueryType = "complaints" /\ ComplaintsNegative) => result = Returns(One)

(***************************************************************************)
(* C29: the scores of a query type come from a fixed set: recall_count     *)
(* {0, 0.8, 1}, complaints {0, 0.5, 0.8, 1}, complaint_count {0, 0.9, 1},  *)
(* safety_rating {0, 0.5, 1}, safety_features {0, 0.3, 0.5, 1}; recalls is *)
(* 0 or within [0.7, 1]; none of them is strictly between 0.5 and 0.7.     *)
(***************************************************************************)
DiscreteScores ==
    Returned =>
        /\ QueryType = "recall_count" => result.score \in {Zero, Rat(8, 10), One}
        /\ QueryType = "complaints" => result.score \in {Zero, Half, Rat(8, 10), One}
        /\ QueryType = "complaint_count" => result.score \in {Zero, Rat(9, 10), One}
        /\ QueryType = "safety_rating" => result.score \in {Zero, Half, One}
        /\ QueryType = "safety_features" =>
              result.score \in {Zero, Rat(3, 10), Half, One}
        /\ QueryType = "recalls" =>
              \/ result.score = Zero
              \/ RLe(Rat(7, 10), result.score) /\ RLe(result.score, One)
        /\ QueryType \in QueryTypes \ {"comparison"} =>
              ~(RLe(Half, result.score) /\ RLe(result.score, Rat(7, 10))
                    /\ result.score \notin {Half, Rat(7, 10)})

PartialBonusGraded ==
    /\ Returned
    /\ QueryType = "recalls"
    /\ RLe(Rat(7, 10), result.score)
    /\ result.score \notin {Rat(7, 10), One}

(***************************************************************************)
(* C30: get_safety_rating is a two-step lookup: the per-VehicleId request  *)
(* is issued only after the model-year request answered with Count > 0 and *)
(* names the VehicleId of its first result; a record is returned only when *)
(* the second response lists a result, and is its first entry; in every    *)
(* other outcome of the two steps the function returns absent and does not *)
(* raise.  (Fails: a timeout of either request, and a first response with  *)
(* Count > 0 and no result, raise.)                                        *)
(***************************************************************************)
TwoStepLookup ==
    (Graded /\ QueryType \in {"safety_rating", "safety_features"}) =>
        LET first == nhtsa[1][1]
            counted == first.kind = "json" /\ Get(first.body, "Count", 0) > 0
        IN  /\ IsModelYearRequest(requests[1])
            /\ Len(requests) = 2 =>
                  /\ counted
                  /\ requests[2] = "/SafetyRatings/VehicleId/"
                                       \o Format(first.body["Results"][1]["VehicleId"])
            /\ ~counted => Len(requests) = 1
            /\ ~RatingRecord.raised
            /\ RatingRecord.value # None =>
                  /\ Len(requests) = 2
                  /\ nhtsa[1][2].kind = "json"
                  /\ Get(nhtsa[1][2].body, "Results", << >>) # << >>
                  /\ RatingRecord.value = nhtsa[1][2].body["Results"][1]
            /\ result.error \notin {"TimeoutError", "KeyError", "IndexError"}

(***************************************************************************)
(* C25 as stated: the gradings of one example (the base model's answer and *)
(* the fine-tuned model's answer) use the same ground-truth record, even   *)
(* if the data source changes or fails between them.                       *)
(***************************************************************************)
BothEvaluated == calls = ModelsCompared /\ ~stale

EmptyResponseNeverPasses ==
    Graded =>
        /\ modelFailed =>
              /\ sample = [output_text |-> ""]
              /\ result = Outcome(grade(item, sample, nhtsa))
        /\ result.kind = "return" => (passed <=> RLe(Rat(7, 10), result.score))
        /\ Text = "" => ~passed

====
